---- MODULE Spec2Model ----
(***************************************************************************)
(* Coffee-shop order workflow: the Order entity (domain/order.rs), the     *)
(* two OrderRepository adapters (adapters/memory_storage.rs,               *)
(* adapters/json_storage.rs) and the OrderService orchestrator             *)
(* (services/order_service.rs).                                            *)
(*                                                                         *)
(* Amounts (f64 in the source) are integer cents.  Uuid::new_v4() is a     *)
(* counter (a fresh value on every call).  Option<T> is a sequence of      *)
(* length 0 (None) or 1 (Some).  Result<T, E> is a record [ok, val, err].  *)
(***************************************************************************)
EXTENDS Integers, Sequences, FiniteSets, TLC

VARIABLES
    repo,      \* OrderService.repository: [kind, orders, file]
    uuid,      \* number of order ids Uuid::new_v4() has handed to Order::new
    clock,     \* Utc::now() as read by Order::new
    payseq,    \* number of payment identifiers the processor has issued
    charges,   \* payment identifiers the processor returned Ok for (captured)
    op,        \* the service operation that just ran, with its arguments
    ret,       \* what that operation returned
    calls,     \* the collaborator calls that operation made, in order
    pre        \* the repository as it was when that operation started
\* (SpecRace and SpecOrder say at their head what op, ret, calls and pre
\* record for two interleaved callers and for the Order entity alone)

vars == <<repo, uuid, clock, payseq, charges, op, ret, calls, pre>>

(***************************************************************************)
(* Bounds and input sets                                                   *)
(***************************************************************************)
\* place_order calls that get as far as Order::new
MaxOrders == 1

OrderIds == 0..MaxOrders

Customers == {"alice@example.com", "bob@example.com"}

\* Coffee { size: Medium, extra_shots: 0 } and Tea { size: Medium, variety: "Green" }
\* as the Beverage trait shows them: name(), description(), price()
Coffee == [name |-> "Coffee", description |-> "Coffee (Medium)", price |-> 350]
Tea == [name |-> "Green Tea", description |-> "Green Tea (Medium)", price |-> 250]

\* the Vec<Box<dyn Beverage>> arguments place_order is called with
BeverageLists == {<<>>, <<Coffee>>, <<Coffee, Tea>>}

(***************************************************************************)
(* Option and Result                                                       *)
(***************************************************************************)
None == <<>>
Some(x) == <<x>>
Unit == "()"

Ok(v) == [ok |-> TRUE, val |-> <<v>>, err |-> <<>>]
Err(e) == [ok |-> FALSE, val |-> <<>>, err |-> e]

(***************************************************************************)
(* domain/order.rs                                                         *)
(***************************************************************************)
OrderStatus == {"Pending", "Paid", "Preparing", "Ready", "Completed", "Cancelled"}

\* mutant: the quantities are ignored
RECURSIVE SumPrices(_)
SumPrices(items) ==
    IF items = <<>> THEN 0 ELSE Head(items).price + SumPrices(Tail(items))

RECURSIVE SumItems(_)
SumItems(items) ==
    IF items = <<>> THEN 0
    ELSE Head(items).price * Head(items).quantity + SumItems(Tail(items))

Order_new(id, now, customer, items) ==
    [id |-> id,
     customer |-> customer,
     items |-> items,
     status |-> "Pending",
     created_at |-> now,
     total_price |-> SumItems(items),
     payment_id |-> None]

\* mutant: the status changes but the identifier is not stored
mark_as_paid_without_id(order, payment_id) ==
    [order EXCEPT !.status = "Paid"]

\* mutant: an identifier already stored is kept
mark_as_paid_keeping_first_id(order, payment_id) ==
    [order EXCEPT !.status = "Paid",
                  !.payment_id = IF @ = None THEN Some(payment_id) ELSE @]

mark_as_paid(order, payment_id) ==
    [order EXCEPT !.status = "Paid", !.payment_id = Some(payment_id)]

\* mutant: an unpaid order can be prepared too
mark_as_preparing_unpaid(order) ==
    IF order.status \in {"Pending", "Paid"} THEN [order EXCEPT !.status = "Preparing"] ELSE order

mark_as_preparing(order) ==
    IF order.status = "Paid" THEN [order EXCEPT !.status = "Preparing"] ELSE order

\* mutant: moves the order one stage on, whatever the stage
mark_as_ready_next_stage(order) ==
    IF order.status = "Paid" THEN [order EXCEPT !.status = "Preparing"]
    ELSE IF order.status = "Preparing" THEN [order EXCEPT !.status = "Ready"]
    ELSE IF order.status = "Ready" THEN [order EXCEPT !.status = "Completed"]
    ELSE order

\* mutant: a cancelled order can be made ready
mark_as_ready_from_cancelled(order) ==
    IF order.status \in {"Preparing", "Cancelled"} THEN [order EXCEPT !.status = "Ready"] ELSE order

\* mutant: a paid order becomes ready without having been prepared
mark_as_ready_skipping_preparing(order) ==
    IF order.status \in {"Paid", "Preparing"} THEN [order EXCEPT !.status = "Ready"] ELSE order

mark_as_ready(order) ==
    IF order.status = "Preparing" THEN [order EXCEPT !.status = "Ready"] ELSE order

\* mutant: completing an order clears its price
mark_as_completed_repricing(order) ==
    IF order.status = "Ready" THEN [order EXCEPT !.status = "Completed", !.total_price = 0] ELSE order

mark_as_completed(order) ==
    IF order.status = "Ready" THEN [order EXCEPT !.status = "Completed"] ELSE order

\* mutant: a completed order is cancelled like any other
cancel_unguarded(order) == [order EXCEPT !.status = "Cancelled"]

\* mutant: cancelling also drops the payment identifier
cancel_dropping_payment(order) ==
    IF order.status # "Completed"
    THEN [order EXCEPT !.status = "Cancelled", !.payment_id = None]
    ELSE order

cancel(order) ==
    IF order.status # "Completed" THEN [order EXCEPT !.status = "Cancelled"] ELSE order

(***************************************************************************)
(* ports/repository.rs, ports/payment.rs, ports/notifier.rs                *)
(***************************************************************************)
RepositoryError == {"NotFound", "SaveFailed", "LoadFailed", "AlreadyExists"}

PaymentError == {"InsufficientFunds", "InvalidCard", "ProcessingFailed", "NetworkError"}

NotificationError == {"SendFailed", "InvalidRecipient", "NetworkError"}

\* what the PaymentProcessor of a run answers: Ok(payment id) or Err(PaymentError)
PaymentOutcomes == {"Ok", "InsufficientFunds", "NetworkError"}

\* what the Notifier of a run answers: Ok(()) or Err(NotificationError)
NotifyOutcomes == {"Ok", "SendFailed"}

\* whether fs::write succeeds
IoOutcomes == {"ok", "fail"}

(***************************************************************************)
(* adapters/cash_payment.rs, adapters/credit_card_payment.rs               *)
(* The identifier is a prefix and a fresh Uuid::new_v4(), here the number  *)
(* of identifiers issued so far plus one.                                  *)
(***************************************************************************)
\* the card limit, 1000.00, in cents
CardLimit == 100000

Cash_process_payment(s, amount) ==
    LET id == <<"CASH-", s.payseq + 1>>
    IN  [s |-> [s EXCEPT !.payseq = @ + 1, !.charges = @ \cup {id}], res |-> Ok(id)]

\* mutant: the card has no limit
CreditCard_process_payment_unlimited(s, amount) ==
    IF amount < 0
    THEN [s |-> s, res |-> Err(<<"ProcessingFailed">>)]
    ELSE LET id == <<"CC-", s.payseq + 1>>
         IN  [s |-> [s EXCEPT !.payseq = @ + 1, !.charges = @ \cup {id}], res |-> Ok(id)]

CreditCard_process_payment(s, amount) ==
    IF amount < 0
    THEN [s |-> s, res |-> Err(<<"ProcessingFailed">>)]
    ELSE IF amount > CardLimit
    THEN [s |-> s, res |-> Err(<<"ProcessingFailed">>)]
    ELSE LET id == <<"CC-", s.payseq + 1>>
         IN  [s |-> [s EXCEPT !.payseq = @ + 1, !.charges = @ \cup {id}], res |-> Ok(id)]

Processors == {"Cash", "CreditCard"}

\* PaymentProcessor::process_payment as the service sees it.  outcome names
\* the processor P the service was built with, or else what a processor
\* known only by the trait answers: a fresh payment identifier on success,
\* an error otherwise.  s is the state the call runs in.
process_payment(s, amount, outcome) ==
    IF outcome = "Cash" THEN Cash_process_payment(s, amount)
    ELSE IF outcome = "CreditCard" THEN CreditCard_process_payment(s, amount)
    ELSE IF outcome = "Ok"
    THEN [s |-> [s EXCEPT !.payseq = @ + 1, !.charges = @ \cup {s.payseq + 1}],
          res |-> Ok(s.payseq + 1)]
    ELSE [s |-> s, res |-> Err(<<outcome>>)]

\* a Notifier method as the service sees it
notify(order, outcome) ==
    IF outcome = "Ok" THEN Ok(Unit) ELSE Err(<<outcome>>)

(***************************************************************************)
(* HashMap<Uuid, Order>                                                    *)
(***************************************************************************)
EmptyMap == [i \in {} |-> None]

contains_key(orders, id) == id \in DOMAIN orders

insert(orders, order) ==
    [i \in DOMAIN orders \cup {order.id} |-> IF i = order.id THEN order ELSE orders[i]]

get(orders, id) == IF id \in DOMAIN orders THEN Some(orders[id]) ELSE None

values(orders) == {orders[i] : i \in DOMAIN orders}

remove(orders, id) == [i \in DOMAIN orders \ {id} |-> orders[i]]

(***************************************************************************)
(* adapters/memory_storage.rs                                              *)
(***************************************************************************)
\* mutant: the duplicate is refused after it has replaced the record
Memory_save_overwriting(r, order) ==
    IF contains_key(r.orders, order.id)
    THEN [repo |-> [r EXCEPT !.orders = insert(@, order)], res |-> Err(<<"AlreadyExists">>)]
    ELSE [repo |-> [r EXCEPT !.orders = insert(@, order)], res |-> Ok(Unit)]

Memory_save(r, order) ==
    IF contains_key(r.orders, order.id)
    THEN [repo |-> r, res |-> Err(<<"AlreadyExists">>)]
    ELSE [repo |-> [r EXCEPT !.orders = insert(@, order)], res |-> Ok(Unit)]

Memory_find_by_id(r, id) == Ok(get(r.orders, id))

\* mutant: a cancelled record is not overwritten
Memory_update_keeping_cancelled(r, order) ==
    IF ~contains_key(r.orders, order.id)
    THEN [repo |-> r, res |-> Err(<<"NotFound">>)]
    ELSE IF r.orders[order.id].status = "Cancelled"
    THEN [repo |-> r, res |-> Ok(Unit)]
    ELSE [repo |-> [r EXCEPT !.orders = insert(@, order)], res |-> Ok(Unit)]

\* the Vec is collected from HashMap::values(), whose order is unspecified:
\* it is kept as the set of its elements (ids are unique, so none repeats)
Memory_find_by_customer_email(r, email) ==
    Ok({o \in values(r.orders) : o.customer = email})

Memory_list_all(r) == Ok(values(r.orders))

\* mutant: an update of an id without record creates the record
Memory_update_or_insert(r, order) ==
    [repo |-> [r EXCEPT !.orders = insert(@, order)], res |-> Ok(Unit)]

\* mutant: the update overwrites every stored order's status
Memory_update_every_status(r, order) ==
    IF ~contains_key(r.orders, order.id)
    THEN [repo |-> r, res |-> Err(<<"NotFound">>)]
    ELSE [repo |-> [r EXCEPT !.orders =
                       [id \in DOMAIN insert(@, order) |->
                           [insert(@, order)[id] EXCEPT !.status = order.status]]],
          res |-> Ok(Unit)]

Memory_update(r, order) ==
    IF ~contains_key(r.orders, order.id)
    THEN [repo |-> r, res |-> Err(<<"NotFound">>)]
    ELSE [repo |-> [r EXCEPT !.orders = insert(@, order)], res |-> Ok(Unit)]

\* mutant: reports the removal without removing
Memory_delete_keeping(r, id) ==
    [repo |-> r, res |-> Ok(contains_key(r.orders, id))]

Memory_delete(r, id) ==
    [repo |-> [r EXCEPT !.orders = remove(@, id)], res |-> Ok(contains_key(r.orders, id))]

(***************************************************************************)
(* adapters/json_storage.rs                                                *)
(***************************************************************************)
\* the file holds the serialized Vec of the map's values
save_to_file(r, io) ==
    IF io = "ok"
    THEN [repo |-> [r EXCEPT !.file = Some(values(r.orders))], res |-> Ok(Unit)]
    ELSE [repo |-> r, res |-> Err(<<"SaveFailed">>)]

load_from_file(contents) ==
    [i \in {o.id : o \in contents} |-> CHOOSE o \in contents : o.id = i]

Json_save(r, order, io) ==
    IF contains_key(r.orders, order.id)
    THEN [repo |-> r, res |-> Err(<<"AlreadyExists">>)]
    ELSE save_to_file([r EXCEPT !.orders = insert(@, order)], io)

Json_find_by_id(r, id) == Ok(get(r.orders, id))

Json_find_by_customer_email(r, email) ==
    Ok({o \in values(r.orders) : o.customer = email})

Json_list_all(r) == Ok(values(r.orders))

\* mutant: an update of an id without record creates the record
Json_update_or_insert(r, order, io) ==
    save_to_file([r EXCEPT !.orders = insert(@, order)], io)

Json_update(r, order, io) ==
    IF ~contains_key(r.orders, order.id)
    THEN [repo |-> r, res |-> Err(<<"NotFound">>)]
    ELSE save_to_file([r EXCEPT !.orders = insert(@, order)], io)

\* mutant: the removal is not written to the file
Json_delete_unwritten(r, id, io) ==
    [repo |-> [r EXCEPT !.orders = remove(@, id)], res |-> Ok(contains_key(r.orders, id))]

\* the file is written only when a record was removed
Json_delete(r, id, io) ==
    IF ~contains_key(r.orders, id)
    THEN [repo |-> r, res |-> Ok(FALSE)]
    ELSE LET w == save_to_file([r EXCEPT !.orders = remove(@, id)], io)
         IN  [repo |-> w.repo, res |-> IF w.res.ok THEN Ok(TRUE) ELSE w.res]

(***************************************************************************)
(* ports/repository.rs: an implementation of OrderRepository over a        *)
(* backend the service does not own (the trait names Postgres).  It does   *)
(* what the contract of each method says; r.find and r.write are what the  *)
(* backend answers to the next retrieval and the next write:               *)
(*   r.find  = "LoadFailed" : retrieval fails                              *)
(*   r.write = "SaveFailed" : the write fails                              *)
(*   r.write = "NotFound"   : another client of the backend removes the    *)
(*                            record just before the update reaches it     *)
(***************************************************************************)
FindOutcomes == {"Ok", "LoadFailed"}

WriteOutcomes == {"Ok", "SaveFailed", "NotFound"}

Trait_save(r, order) ==
    IF contains_key(r.orders, order.id)
    THEN [repo |-> r, res |-> Err(<<"AlreadyExists">>)]
    ELSE IF r.write = "SaveFailed"
    THEN [repo |-> r, res |-> Err(<<"SaveFailed">>)]
    ELSE [repo |-> [r EXCEPT !.orders = insert(@, order)], res |-> Ok(Unit)]

Trait_find_by_id(r, id) ==
    IF r.find = "LoadFailed" THEN Err(<<"LoadFailed">>) ELSE Ok(get(r.orders, id))

Trait_find_by_customer_email(r, email) ==
    IF r.find = "LoadFailed" THEN Err(<<"LoadFailed">>)
    ELSE Ok({o \in values(r.orders) : o.customer = email})

Trait_list_all(r) ==
    IF r.find = "LoadFailed" THEN Err(<<"LoadFailed">>) ELSE Ok(values(r.orders))

Trait_update(r, order) ==
    IF r.write = "NotFound" \/ ~contains_key(r.orders, order.id)
    THEN [repo |-> [r EXCEPT !.orders = remove(@, order.id)], res |-> Err(<<"NotFound">>)]
    ELSE IF r.write = "SaveFailed"
    THEN [repo |-> r, res |-> Err(<<"SaveFailed">>)]
    ELSE [repo |-> [r EXCEPT !.orders = insert(@, order)], res |-> Ok(Unit)]

(***************************************************************************)
(* The repository R the service is instantiated with                       *)
(***************************************************************************)
Repository_save(r, order, io) ==
    IF r.kind = "memory" THEN Memory_save(r, order)
    ELSE IF r.kind = "json" THEN Json_save(r, order, io)
    ELSE Trait_save(r, order)

Repository_find_by_id(r, id) ==
    IF r.kind = "memory" THEN Memory_find_by_id(r, id)
    ELSE IF r.kind = "json" THEN Json_find_by_id(r, id)
    ELSE Trait_find_by_id(r, id)

Repository_find_by_customer_email(r, email) ==
    IF r.kind = "memory" THEN Memory_find_by_customer_email(r, email)
    ELSE IF r.kind = "json" THEN Json_find_by_customer_email(r, email)
    ELSE Trait_find_by_customer_email(r, email)

Repository_list_all(r) ==
    IF r.kind = "memory" THEN Memory_list_all(r)
    ELSE IF r.kind = "json" THEN Json_list_all(r)
    ELSE Trait_list_all(r)

Repository_update(r, order, io) ==
    IF r.kind = "memory" THEN Memory_update(r, order)
    ELSE IF r.kind = "json" THEN Json_update(r, order, io)
    ELSE Trait_update(r, order)

(***************************************************************************)
(* services/order_service.rs                                               *)
(*                                                                         *)
(* A service operation is an operator from the state it runs in,           *)
(* s = [repo, uuid, clock, payseq, charges], its arguments and what the    *)
(* collaborators answer, env = [pay, io, note], to                         *)
(* [s: the state it leaves, ret: its return value, calls: the collaborator *)
(* calls it made].                                                         *)
(***************************************************************************)
PaymentFailed(e) == <<"PaymentFailed">> \o e
StorageFailed(e) == <<"StorageFailed">> \o e
NotificationFailed(e) == <<"NotificationFailed">> \o e
OrderNotFound == <<"OrderNotFound">>
InvalidOrder(msg) == <<"InvalidOrder", msg>>

Call(fn, arg, out) == [fn |-> fn, arg |-> arg, out |-> out]

\* mutant: the notifier's error is propagated with ?
place_order_notify_propagating(s, order, env, log) ==
    LET n == notify(order, env.note)
        log2 == Append(log, Call("notify_order_placed", order, n))
    IN  IF ~n.ok
        THEN [s |-> s, ret |-> Err(NotificationFailed(n.err)), calls |-> log2]
        ELSE [s |-> s, ret |-> Ok(order), calls |-> log2]

\* place_order, lines 173-179: notify, and return the order whatever the
\* notifier answers
place_order_notify(s, order, env, log) ==
    [s |-> s,
     ret |-> Ok(order),
     calls |-> Append(log, Call("notify_order_placed", order, notify(order, env.note)))]

\* place_order, lines 168-171: save, and return StorageFailed if it fails
\* mutant: the customer is notified before the order is saved
place_order_save_after_notify(s, order, env, log) ==
    LET log1 == Append(log, Call("notify_order_placed", order, notify(order, env.note)))
        sv == Repository_save(s.repo, order, env.io)
        s2 == [s EXCEPT !.repo = sv.repo]
        log2 == Append(log1, Call("save", order, sv.res))
    IN  IF ~sv.res.ok
        THEN [s |-> s2, ret |-> Err(StorageFailed(sv.res.err)), calls |-> log2]
        ELSE [s |-> s2, ret |-> Ok(order), calls |-> log2]

place_order_save(s, order, env, log) ==
    LET sv == Repository_save(s.repo, order, env.io)
        s2 == [s EXCEPT !.repo = sv.repo]
        log2 == Append(log, Call("save", order, sv.res))
    IN  IF ~sv.res.ok
        THEN [s |-> s2, ret |-> Err(StorageFailed(sv.res.err)), calls |-> log2]
        ELSE place_order_notify(s2, order, env, log2)

\* mutant: the order is saved before it is charged
place_order_pay_after_save(s, order, env) ==
    LET sv == Repository_save(s.repo, order, env.io)
        s2 == [s EXCEPT !.repo = sv.repo]
        p == process_payment(s2, order.total_price, env.pay)
        log == <<Call("save", order, sv.res),
                 Call("process_payment", order.total_price, p.res)>>
    IN  IF ~sv.res.ok
        THEN [s |-> s2, ret |-> Err(StorageFailed(sv.res.err)), calls |-> <<log[1]>>]
        ELSE IF ~p.res.ok
        THEN [s |-> p.s, ret |-> Err(PaymentFailed(p.res.err)), calls |-> log]
        ELSE place_order_notify(p.s, mark_as_paid(order, p.res.val[1]), env, log)

\* place_order, lines 157-166: charge order.total_price, return PaymentFailed
\* if that fails, mark the order paid otherwise
\* mutant: a failed payment is tried a second time
place_order_pay_retrying(s, order, env) ==
    LET p == process_payment(s, order.total_price, env.pay)
        log == <<Call("process_payment", order.total_price, p.res)>>
    IN  IF ~p.res.ok
        THEN [s |-> p.s,
              ret |-> Err(PaymentFailed(p.res.err)),
              calls |-> Append(log, Call("process_payment", order.total_price, p.res))]
        ELSE place_order_save(p.s, mark_as_paid(order, p.res.val[1]), env, log)

place_order_pay(s, order, env) ==
    LET p == process_payment(s, order.total_price, env.pay)
        log == <<Call("process_payment", order.total_price, p.res)>>
    IN  IF ~p.res.ok
        THEN [s |-> p.s, ret |-> Err(PaymentFailed(p.res.err)), calls |-> log]
        ELSE place_order_save(p.s, mark_as_paid(order, p.res.val[1]), env, log)

\* mutant: the line items come out in reverse order
order_items_reversed(beverages) ==
    [i \in 1..Len(beverages) |->
        [beverage_name |-> beverages[Len(beverages) + 1 - i].name,
         beverage_description |-> beverages[Len(beverages) + 1 - i].description,
         price |-> beverages[Len(beverages) + 1 - i].price,
         quantity |-> 1]]

\* place_order, lines 143-153: one line item of quantity 1 per beverage
order_items(beverages) ==
    [i \in 1..Len(beverages) |->
        [beverage_name |-> beverages[i].name,
         beverage_description |-> beverages[i].description,
         price |-> beverages[i].price,
         quantity |-> 1]]

\* mutant: the item list is not validated
place_order_unvalidated(s, customer, beverages, env) ==
    LET order == Order_new(s.uuid + 1, s.clock + 1, customer, order_items(beverages))
        s1 == [s EXCEPT !.uuid = @ + 1, !.clock = @ + 1]
    IN  place_order_pay(s1, order, env)

\* mutant: every order gets the same id (Uuid::nil() for Uuid::new_v4())
place_order_nil_id(s, customer, beverages, env) ==
    IF beverages = <<>>
    THEN [s |-> s,
          ret |-> Err(InvalidOrder("Order must contain at least one item")),
          calls |-> <<>>]
    ELSE LET order == Order_new(0, s.clock + 1, customer, order_items(beverages))
             s1 == [s EXCEPT !.uuid = @ + 1, !.clock = @ + 1]
         IN  place_order_pay(s1, order, env)

place_order(s, customer, beverages, env) ==
    IF beverages = <<>>
    THEN [s |-> s,
          ret |-> Err(InvalidOrder("Order must contain at least one item")),
          calls |-> <<>>]
    ELSE LET order == Order_new(s.uuid + 1, s.clock + 1, customer, order_items(beverages))
             s1 == [s EXCEPT !.uuid = @ + 1, !.clock = @ + 1]
         IN  place_order_pay(s1, order, env)

\* mutant: a failed retrieval is reported as a missing order
get_order_load_error_as_missing(r, id) ==
    LET f == Repository_find_by_id(r, id)
    IN  IF ~f.ok \/ f.val[1] = None THEN Err(OrderNotFound) ELSE Ok(f.val[1][1])

\* mutant: a missing order is reported as the store's NotFound
get_order_missing_as_storage_error(r, id) ==
    LET f == Repository_find_by_id(r, id)
    IN  IF ~f.ok THEN Err(StorageFailed(f.err))
        ELSE IF f.val[1] = None THEN Err(StorageFailed(<<"NotFound">>))
        ELSE Ok(f.val[1][1])

get_order(r, id) ==
    LET f == Repository_find_by_id(r, id)
    IN  IF ~f.ok THEN Err(StorageFailed(f.err))
        ELSE IF f.val[1] = None THEN Err(OrderNotFound)
        ELSE Ok(f.val[1][1])

\* mutant: every customer is shown all the orders
list_customer_orders_unfiltered(r, email) ==
    LET f == Repository_list_all(r)
    IN  IF ~f.ok THEN Err(StorageFailed(f.err)) ELSE Ok(f.val[1])

list_customer_orders(r, email) ==
    LET f == Repository_find_by_customer_email(r, email)
    IN  IF ~f.ok THEN Err(StorageFailed(f.err)) ELSE Ok(f.val[1])

list_all_orders(r) ==
    LET f == Repository_list_all(r)
    IN  IF ~f.ok THEN Err(StorageFailed(f.err)) ELSE Ok(f.val[1])

\* mutant: the store's NotFound is reported as OrderNotFound
mark_order_ready_update_not_found(s, order, env, log) ==
    LET u == Repository_update(s.repo, order, env.io)
        s2 == [s EXCEPT !.repo = u.repo]
        log2 == Append(log, Call("update", order, u.res))
    IN  IF ~u.res.ok
        THEN [s |-> s2,
              ret |-> IF u.res.err = <<"NotFound">> THEN Err(OrderNotFound)
                      ELSE Err(StorageFailed(u.res.err)),
              calls |-> log2]
        ELSE [s |-> s2,
              ret |-> Ok(Unit),
              calls |-> Append(log2, Call("notify_order_ready", order, notify(order, env.note)))]

\* mark_order_ready, lines 203-212: update, then notify, then Ok(())
mark_order_ready_update(s, order, env, log) ==
    LET u == Repository_update(s.repo, order, env.io)
        s2 == [s EXCEPT !.repo = u.repo]
        log2 == Append(log, Call("update", order, u.res))
    IN  IF ~u.res.ok
        THEN [s |-> s2, ret |-> Err(StorageFailed(u.res.err)), calls |-> log2]
        ELSE [s |-> s2,
              ret |-> Ok(Unit),
              calls |-> Append(log2, Call("notify_order_ready", order, notify(order, env.note)))]

mark_order_ready(s, id, env) ==
    LET g == get_order(s.repo, id)
        log == <<Call("find_by_id", id, Repository_find_by_id(s.repo, id))>>
    IN  IF ~g.ok
        THEN [s |-> s, ret |-> Err(g.err), calls |-> log]
        ELSE mark_order_ready_update(s, mark_as_ready(g.val[1]), env, log)

\* mutant: a cancelled order is deleted from the repository
cancel_order_update_deleting(s, found, env, log) ==
    LET order == cancel(found)
        s2 == [s EXCEPT !.repo.orders = remove(@, order.id)]
        log2 == Append(log, Call("delete", order.id, Ok(TRUE)))
    IN  [s |-> s2,
         ret |-> Ok(Unit),
         calls |-> Append(log2, Call("notify_order_cancelled", order, notify(order, env.note)))]

\* cancel_order, lines 226-236: cancel, update, then notify
cancel_order_update(s, found, env, log) ==
    LET order == cancel(found)
        u == Repository_update(s.repo, order, env.io)
        s2 == [s EXCEPT !.repo = u.repo]
        log2 == Append(log, Call("update", order, u.res))
    IN  IF ~u.res.ok
        THEN [s |-> s2, ret |-> Err(StorageFailed(u.res.err)), calls |-> log2]
        ELSE [s |-> s2,
              ret |-> Ok(Unit),
              calls |-> Append(log2, Call("notify_order_cancelled", order, notify(order, env.note)))]

\* mutant: the completed check is left to the entity's cancel
cancel_order_guard_missing(s, found, env, log) ==
    cancel_order_update(s, found, env, log)

\* cancel_order, lines 219-224: a completed order is refused
cancel_order_guard(s, found, env, log) ==
    IF found.status = "Completed"
    THEN [s |-> s, ret |-> Err(InvalidOrder("Cannot cancel completed order")), calls |-> log]
    ELSE cancel_order_update(s, found, env, log)

cancel_order(s, id, env) ==
    LET g == get_order(s.repo, id)
        log == <<Call("find_by_id", id, Repository_find_by_id(s.repo, id))>>
    IN  IF ~g.ok
        THEN [s |-> s, ret |-> Err(g.err), calls |-> log]
        ELSE cancel_order_guard(s, g.val[1], env, log)

(***************************************************************************)
(* The state machine: a service built by OrderService::new over a          *)
(* repository that may already hold an order, then driven by one call      *)
(* after the other.  A call runs to completion (the service is used        *)
(* through &mut self); op, ret, calls and pre record it until the caller   *)
(* has taken its result.                                                   *)
(***************************************************************************)
Idle == [name |-> "idle"]

State == [repo |-> repo, uuid |-> uuid, clock |-> clock, payseq |-> payseq, charges |-> charges]

\* What the collaborators answer during one call.  A handler asks for an
\* answer only after the earlier ones were successes, and only a json
\* repository writes a file: the answers never asked for are fixed, so that
\* each run of a handler is enumerated once.
Env(kind) ==
    {e \in [pay : PaymentOutcomes, io : IoOutcomes, note : NotifyOutcomes] :
        /\ e.pay # "Ok" => e.io = "ok" /\ e.note = "Ok"
        /\ e.io = "fail" => e.note = "Ok" /\ kind = "json"}

\* the same for a handler that takes no payment
EnvNoPayment(kind) == {e \in Env(kind) : e.pay = "Ok"}

\* an order some earlier run left in the repository, under id 0
StoredBefore(status) ==
    [Order_new(0, 0, "alice@example.com", order_items(<<Coffee>>))
        EXCEPT !.status = status,
               !.payment_id = IF status = "Pending" THEN None ELSE Some(0)]

InitialOrders == {EmptyMap} \cup {insert(EmptyMap, StoredBefore(st)) : st \in OrderStatus}

\* MemoryOrderRepository::new() followed by the saves that filled it
Memory_new(orders) == [kind |-> "memory", orders |-> orders, file |-> None]

\* JsonOrderRepository::new(path): the orders of the file if there is one
Json_new(file) ==
    [kind |-> "json",
     orders |-> IF file = None THEN EmptyMap ELSE load_from_file(file[1]),
     file |-> file]

Init ==
    /\ repo \in {Memory_new(m) : m \in InitialOrders}
                \cup {Json_new(IF m = EmptyMap THEN None ELSE Some(values(m))) : m \in InitialOrders}
    /\ uuid = 0
    /\ clock = 0
    /\ payseq = 0
    /\ charges = {}
    /\ op = Idle
    /\ ret = Ok(Unit)
    /\ calls = <<>>
    /\ pre = repo

Run(o, out) ==
    /\ repo' = out.s.repo
    /\ uuid' = out.s.uuid
    /\ clock' = out.s.clock
    /\ payseq' = out.s.payseq
    /\ charges' = out.s.charges
    /\ op' = o
    /\ ret' = out.ret
    /\ calls' = out.calls
    /\ pre' = repo

PlaceOrder ==
    /\ op = Idle
    /\ \E c \in Customers, b \in BeverageLists, e \in Env(repo.kind) :
          /\ b # <<>> => uuid < MaxOrders
          /\ \E out \in {place_order(State, c, b, e)} :
                Run([name |-> "place_order", customer |-> c, beverages |-> b], out)

GetOrder ==
    /\ op = Idle
    /\ \E id \in OrderIds :
          \E out \in {[s |-> State,
                       ret |-> get_order(repo, id),
                       calls |-> <<Call("find_by_id", id, Repository_find_by_id(repo, id))>>]} :
              Run([name |-> "get_order", id |-> id], out)

MarkOrderReady ==
    /\ op = Idle
    /\ \E id \in OrderIds, e \in EnvNoPayment(repo.kind) :
          \E out \in {mark_order_ready(State, id, e)} :
              Run([name |-> "mark_order_ready", id |-> id], out)

CancelOrder ==
    /\ op = Idle
    /\ \E id \in OrderIds, e \in EnvNoPayment(repo.kind) :
          \E out \in {cancel_order(State, id, e)} :
              Run([name |-> "cancel_order", id |-> id], out)

ListCustomerOrders ==
    /\ op = Idle
    /\ \E c \in Customers :
          \E out \in {[s |-> State,
                       ret |-> list_customer_orders(repo, c),
                       calls |-> <<Call("find_by_customer_email", c,
                                        Repository_find_by_customer_email(repo, c))>>]} :
              Run([name |-> "list_customer_orders", email |-> c], out)

ListAllOrders ==
    /\ op = Idle
    /\ \E out \in {[s |-> State,
                     ret |-> list_all_orders(repo),
                     calls |-> <<Call("list_all", Unit, Repository_list_all(repo))>>]} :
          Run([name |-> "list_all_orders"], out)

\* the caller takes the result (main.rs matches on it and prints); the
\* service is ready for the next call
Return ==
    /\ op # Idle
    /\ op' = Idle
    /\ ret' = Ok(Unit)
    /\ calls' = <<>>
    /\ pre' = repo
    /\ UNCHANGED <<repo, uuid, clock, payseq, charges>>

Next ==
    \/ PlaceOrder
    \/ GetOrder
    \/ ListCustomerOrders
    \/ ListAllOrders
    \/ MarkOrderReady
    \/ CancelOrder
    \/ Return

Spec == Init /\ [][Next]_vars

\* the same service over a repository that starts empty:
\* MemoryOrderRepository::new(), or JsonOrderRepository::new on a path
\* without file
InitFresh == Init /\ repo.orders = EmptyMap

SpecFresh == InitFresh /\ [][Next]_vars

\* the service as main.rs builds it (lines 23-31): MemoryOrderRepository::new()
\* and CashPayment; MaxPlaced orders can be placed
MaxPlaced == 2

InitMain == Init /\ repo = Memory_new(EmptyMap)

PlaceOrderByCash ==
    /\ op = Idle
    /\ \E c \in Customers, b \in BeverageLists, n \in NotifyOutcomes :
          /\ b # <<>> => uuid < MaxPlaced
          /\ \E out \in {place_order(State, c, b, [pay |-> "Cash", io |-> "ok", note |-> n])} :
                Run([name |-> "place_order", customer |-> c, beverages |-> b], out)

NextMain ==
    \/ PlaceOrderByCash
    \/ GetOrder
    \/ MarkOrderReady
    \/ CancelOrder
    \/ Return

SpecMain == InitMain /\ [][NextMain]_vars

(***************************************************************************)
(* The same service instantiated with a repository that is only known to   *)
(* honour the OrderRepository contract: between two calls the backend may  *)
(* start or stop failing.                                                  *)
(***************************************************************************)
Trait_new(orders, find, write) ==
    [kind |-> "trait", orders |-> orders, file |-> None, find |-> find, write |-> write]

InitTrait ==
    /\ repo \in {Trait_new(m, f, w) : m \in InitialOrders, f \in FindOutcomes, w \in WriteOutcomes}
    /\ uuid = 0
    /\ clock = 0
    /\ payseq = 0
    /\ charges = {}
    /\ op = Idle
    /\ ret = Ok(Unit)
    /\ calls = <<>>
    /\ pre = repo

Backend ==
    /\ op = Idle
    /\ \E f \in FindOutcomes, w \in WriteOutcomes :
          /\ <<f, w>> # <<repo.find, repo.write>>
          /\ repo' = [repo EXCEPT !.find = f, !.write = w]
    /\ pre' = repo'
    /\ UNCHANGED <<uuid, clock, payseq, charges, op, ret, calls>>

NextTrait == Next \/ Backend

SpecTrait == InitTrait /\ [][NextTrait]_vars

(***************************************************************************)
(* Two callers working on one MemoryOrderRepository, each running          *)
(* mark_order_ready(id) or cancel_order(id).  Neither handler holds        *)
(* anything between its find_by_id (line 199 / 217) and its update (line   *)
(* 203 / 228), so a call is two steps: Load is get_order, Store is the     *)
(* rest of the handler, run on the copy the caller loaded (the transition  *)
(* touches only that copy).  Here                                          *)
(*   op[c]  = [name, id, pc, order] : caller c's call, where it stands and *)
(*            the copy it holds                                            *)
(*   ret[c] = None until the call has returned, then Some(result)          *)
(*   calls  = the repository and notifier calls of both, in the order they *)
(*            happened, each with its caller                               *)
(*   pre    = the repository both started from                             *)
(***************************************************************************)
Callers == {"a", "b"}

By(c, k) == [caller |-> c, fn |-> k.fn, arg |-> k.arg, out |-> k.out]

InitRace ==
    /\ repo \in {Memory_new(m) : m \in InitialOrders}
    /\ uuid = 0
    /\ clock = 0
    /\ payseq = 0
    /\ charges = {}
    /\ op \in [Callers -> [name : {"mark_order_ready", "cancel_order"},
                           id : OrderIds,
                           pc : {"load"},
                           order : {None}]]
    /\ ret = [c \in Callers |-> None]
    /\ calls = <<>>
    /\ pre = repo

\* let order = self.get_order(id)?
Load ==
    \E c \in Callers :
        /\ op[c].pc = "load"
        /\ LET g == get_order(repo, op[c].id)
               k == Call("find_by_id", op[c].id, Repository_find_by_id(repo, op[c].id))
           IN  /\ calls' = Append(calls, By(c, k))
               /\ IF g.ok
                  THEN /\ op' = [op EXCEPT ![c].pc = "update", ![c].order = Some(g.val[1])]
                       /\ ret' = ret
                  ELSE /\ op' = [op EXCEPT ![c].pc = "done"]
                       /\ ret' = [ret EXCEPT ![c] = Some(Err(g.err))]
        /\ UNCHANGED <<repo, uuid, clock, payseq, charges, pre>>

\* the handler from the line after get_order to its return
Store ==
    \E c \in Callers, e \in EnvNoPayment(repo.kind) :
        /\ op[c].pc = "update"
        /\ LET out == IF op[c].name = "mark_order_ready"
                      THEN mark_order_ready_update(State, mark_as_ready(op[c].order[1]), e, <<>>)
                      ELSE cancel_order_guard(State, op[c].order[1], e, <<>>)
           IN  /\ repo' = out.s.repo
               /\ ret' = [ret EXCEPT ![c] = Some(out.ret)]
               /\ calls' = calls \o [j \in 1..Len(out.calls) |-> By(c, out.calls[j])]
        /\ op' = [op EXCEPT ![c].pc = "done"]
        /\ UNCHANGED <<uuid, clock, payseq, charges, pre>>

NextRace == Load \/ Store

SpecRace == InitRace /\ [][NextRace]_vars

(***************************************************************************)
(* The two payment processors alone, and the service built with            *)
(* CreditCardPayment over an empty MemoryOrderRepository.  Here            *)
(*   op, ret = the call that just ran and what it returned                 *)
(*   pre     = [op, ret] of the call before it                             *)
(*   calls   = the collaborator calls of a place_order                     *)
(***************************************************************************)
\* calls of process_payment that return an identifier
MaxPayments == 2

\* amounts in cents: negative, zero, a coffee, the limit, a cent above it
Amounts == {-1, 0, 350, 100000, 100001}

\* Coffee { size: Large, extra_shots: 255 }: (3.50 + 255 * 0.75) * 1.2
BigCoffee ==
    [name |-> "Coffee (+255 shots)",
     description |-> "Coffee (+255 shots) (Large)",
     price |-> 23370]

\* one coffee, four big ones (934.80) and five (1168.50)
CardBeverageLists ==
    {<<Coffee>>,
     <<BigCoffee, BigCoffee, BigCoffee, BigCoffee>>,
     <<BigCoffee, BigCoffee, BigCoffee, BigCoffee, BigCoffee>>}

InitPayment ==
    /\ repo = Memory_new(EmptyMap)
    /\ uuid = 0
    /\ clock = 0
    /\ payseq = 0
    /\ charges = {}
    /\ op = Idle
    /\ ret = Ok(Unit)
    /\ calls = <<>>
    /\ pre = [op |-> Idle, ret |-> Ok(Unit)]

ProcessPayment ==
    /\ payseq < MaxPayments
    /\ \E p \in Processors, amount \in Amounts :
          \E out \in {process_payment(State, amount, p)} :
              /\ payseq' = out.s.payseq
              /\ charges' = out.s.charges
              /\ op' = [name |-> "process_payment", processor |-> p, amount |-> amount]
              /\ ret' = out.res
    /\ calls' = <<>>
    /\ pre' = [op |-> op, ret |-> ret]
    /\ UNCHANGED <<repo, uuid, clock>>

PlaceOrderByCard ==
    /\ payseq < MaxPayments
    /\ uuid < MaxOrders
    /\ \E c \in Customers, b \in CardBeverageLists, n \in NotifyOutcomes :
          \E out \in {place_order(State, c, b, [pay |-> "CreditCard", io |-> "ok", note |-> n])} :
              /\ repo' = out.s.repo
              /\ uuid' = out.s.uuid
              /\ clock' = out.s.clock
              /\ payseq' = out.s.payseq
              /\ charges' = out.s.charges
              /\ op' = [name |-> "place_order", customer |-> c, beverages |-> b]
              /\ ret' = out.ret
              /\ calls' = out.calls
    /\ pre' = [op |-> op, ret |-> ret]

NextPayment == ProcessPayment \/ PlaceOrderByCard

SpecPayment == InitPayment /\ [][NextPayment]_vars

(***************************************************************************)
(* The two adapters alone, driven side by side by the same                 *)
(* OrderRepository calls (as test_lsp_consistency does), started empty or  *)
(* with the one record an earlier successful save left in both.  Here      *)
(*   repo  = [memory, json] : the two repositories                         *)
(*   op    = the call that just ran, with its argument                     *)
(*   ret   = [memory, json] : what each returned                           *)
(*   pre   = the two repositories before that call                         *)
(*   calls = the calls so far with what each repository returned           *)
(* fs::write may fail at any call of the json repository that writes.      *)
(***************************************************************************)
\* repository calls in one run
MaxRepoCalls == 3

RepoIds == {0, 1}

\* the orders save and update are called with: two owners, and for each id
\* two contents that differ
RepoOrder(id, status) ==
    [StoredBefore(status) EXCEPT
        !.id = id,
        !.customer = IF id = 0 THEN "alice@example.com" ELSE "bob@example.com"]

RepoOrders == {RepoOrder(id, st) : id \in RepoIds, st \in {"Paid", "Ready"}}

InitRepo ==
    /\ repo \in {[memory |-> Memory_new(EmptyMap), json |-> Json_new(None)],
                 [memory |-> Memory_new(insert(EmptyMap, RepoOrder(0, "Paid"))),
                  json |-> Json_new(Some({RepoOrder(0, "Paid")}))]}
    /\ uuid = 0
    /\ clock = 0
    /\ payseq = 0
    /\ charges = {}
    /\ op = Idle
    /\ ret = [memory |-> Ok(Unit), json |-> Ok(Unit)]
    /\ calls = <<>>
    /\ pre = repo

\* one call made on both repositories: m and j are [repo, res]
RepoCall(o, m, j) ==
    /\ Len(calls) < MaxRepoCalls
    /\ op' = o
    /\ repo' = [memory |-> m.repo, json |-> j.repo]
    /\ ret' = [memory |-> m.res, json |-> j.res]
    /\ calls' = Append(calls, [op |-> o, memory |-> m.res, json |-> j.res])
    /\ pre' = repo
    /\ UNCHANGED <<uuid, clock, payseq, charges>>

Save ==
    \E order \in RepoOrders, io \in IoOutcomes :
        RepoCall([name |-> "save", id |-> order.id, order |-> order],
                 Memory_save(repo.memory, order),
                 Json_save(repo.json, order, io))

FindById ==
    \E id \in RepoIds :
        RepoCall([name |-> "find_by_id", id |-> id],
                 [repo |-> repo.memory, res |-> Memory_find_by_id(repo.memory, id)],
                 [repo |-> repo.json, res |-> Json_find_by_id(repo.json, id)])

FindByCustomerEmail ==
    \E c \in Customers :
        RepoCall([name |-> "find_by_customer_email", email |-> c],
                 [repo |-> repo.memory, res |-> Memory_find_by_customer_email(repo.memory, c)],
                 [repo |-> repo.json, res |-> Json_find_by_customer_email(repo.json, c)])

ListAll ==
    RepoCall([name |-> "list_all"],
             [repo |-> repo.memory, res |-> Memory_list_all(repo.memory)],
             [repo |-> repo.json, res |-> Json_list_all(repo.json)])

Update ==
    \E order \in RepoOrders, io \in IoOutcomes :
        RepoCall([name |-> "update", id |-> order.id, order |-> order],
                 Memory_update(repo.memory, order),
                 Json_update(repo.json, order, io))

Delete ==
    \E id \in RepoIds, io \in IoOutcomes :
        RepoCall([name |-> "delete", id |-> id],
                 Memory_delete(repo.memory, id),
                 Json_delete(repo.json, id, io))

NextRepo ==
    \/ Save
    \/ FindById
    \/ FindByCustomerEmail
    \/ ListAll
    \/ Update
    \/ Delete

SpecRepo == InitRepo /\ [][NextRepo]_vars

\* the process ends and a new one opens the same path:
\* JsonOrderRepository::new(file_path)
Reopen ==
    /\ Len(calls) < MaxRepoCalls + 1
    /\ op # Idle
    /\ op.name # "new"
    /\ op' = [name |-> "new"]
    /\ repo' = [repo EXCEPT !.json = Json_new(repo.json.file)]
    /\ ret' = [memory |-> Ok(Unit), json |-> Ok(Unit)]
    /\ calls' = Append(calls, [op |-> op', memory |-> Ok(Unit), json |-> Ok(Unit)])
    /\ pre' = repo
    /\ UNCHANGED <<uuid, clock, payseq, charges>>

NextRestart == NextRepo \/ Reopen

SpecRestart == InitRepo /\ [][NextRestart]_vars

(***************************************************************************)
(* The Order entity alone: Order::new on a customer and an item list, then *)
(* any sequence of its transition methods.  Here                           *)
(*   op    = the method that just ran, with its arguments                  *)
(*   pre   = the order before it ran (None before Order::new)              *)
(*   ret   = the order after it ran                                        *)
(*   calls = the status the order had after each call so far               *)
(*   uuid, clock = what Uuid::new_v4() and Utc::now() gave Order::new      *)
(***************************************************************************)
\* calls of transition methods on one order
MaxCalls == 5

OrderItem(beverage, quantity) ==
    [beverage_name |-> beverage.name,
     beverage_description |-> beverage.description,
     price |-> beverage.price,
     quantity |-> quantity]

\* the Vec<OrderItem> arguments Order::new is called with (quantity is a u8)
OrderItemLists ==
    {<<>>,
     <<OrderItem(Coffee, 0)>>,
     <<OrderItem(Tea, 1)>>,
     <<OrderItem(Coffee, 2), OrderItem(Tea, 1)>>,
     <<OrderItem(Tea, 3), OrderItem(Coffee, 1), OrderItem(Tea, 2)>>}

\* the payment identifiers mark_as_paid is called with
PaymentIds == {1, 2}

InitOrder ==
    /\ repo = Memory_new(EmptyMap)
    /\ uuid = 0
    /\ clock = 0
    /\ payseq = 0
    /\ charges = {}
    /\ op = Idle
    /\ ret = None
    /\ calls = <<>>
    /\ pre = None

New ==
    /\ op = Idle
    /\ \E c \in Customers, items \in OrderItemLists :
          /\ ret' = Order_new(uuid + 1, clock + 1, c, items)
          /\ op' = [name |-> "new", customer |-> c, items |-> items]
    /\ uuid' = uuid + 1
    /\ clock' = clock + 1
    /\ pre' = None
    /\ calls' = <<ret'.status>>
    /\ UNCHANGED <<repo, payseq, charges>>

\* order.method(args), a &mut self call on the order built by New
Transition(o, after) ==
    /\ op # Idle
    /\ Len(calls) <= MaxCalls
    /\ op' = o
    /\ pre' = ret
    /\ ret' = after
    /\ calls' = Append(calls, after.status)
    /\ UNCHANGED <<repo, uuid, clock, payseq, charges>>

MarkAsPaid ==
    \E id \in PaymentIds :
        Transition([name |-> "mark_as_paid", payment_id |-> id], mark_as_paid(ret, id))

MarkAsPreparing ==
    Transition([name |-> "mark_as_preparing"], mark_as_preparing(ret))

MarkAsReady ==
    Transition([name |-> "mark_as_ready"], mark_as_ready(ret))

MarkAsCompleted ==
    Transition([name |-> "mark_as_completed"], mark_as_completed(ret))

Cancel ==
    Transition([name |-> "cancel"], cancel(ret))

NextOrder ==
    \/ New
    \/ MarkAsPaid
    \/ MarkAsPreparing
    \/ MarkAsReady
    \/ MarkAsCompleted
    \/ Cancel

SpecOrder == InitOrder /\ [][NextOrder]_vars

(***************************************************************************)
(* What the last operation did                                             *)
(***************************************************************************)
Called(fn) == \E j \in 1..Len(calls) : calls[j].fn = fn

\* the call to fn succeeded / failed
Succeeded(fn) == \E j \in 1..Len(calls) : calls[j].fn = fn /\ calls[j].out.ok
Failed(fn) == \E j \in 1..Len(calls) : calls[j].fn = fn /\ ~calls[j].out.ok

NotifierMethods == {"notify_order_placed", "notify_order_ready", "notify_order_cancelled"}

ReturnedErr(kind) == ~ret.ok /\ ret.err[1] = kind

\* the last operation was name(id), and id had a record when it started
OnStored(name) == op.name = name /\ op.id \in DOMAIN pre.orders

\* the last operation was name(id), and id had no record when it started
OnMissing(name) == op.name = name /\ op.id \notin DOMAIN pre.orders

(***************************************************************************)
(* C1: in place_order, save is invoked only after process_payment returned *)
(* Ok; if process_payment returns an error, place_order returns            *)
(* PaymentFailed wrapping that error, neither save nor notify_order_placed *)
(* is invoked, and the store is as it was before the call.                 *)
(***************************************************************************)
C1_NoSaveBeforePayment ==
    op.name = "place_order" =>
        /\ \A i \in 1..Len(calls) :
              calls[i].fn = "save" =>
                  \E j \in 1..(i - 1) : calls[j].fn = "process_payment" /\ calls[j].out.ok
        /\ \A j \in 1..Len(calls) :
              (calls[j].fn = "process_payment" /\ ~calls[j].out.ok) =>
                  /\ ret = Err(PaymentFailed(calls[j].out.err))
                  /\ ~Called("save")
                  /\ ~Called("notify_order_placed")
                  /\ repo = pre

C1_Witness ==
    /\ op.name = "place_order"
    /\ Failed("process_payment")
    /\ ret = Err(PaymentFailed(<<"NetworkError">>))
    /\ pre.orders # EmptyMap

(***************************************************************************)
(* C2: place_order with an empty item list returns InvalidOrder, invokes   *)
(* none of process_payment, save, notify_order_placed, and leaves the      *)
(* store unchanged.                                                        *)
(***************************************************************************)
C2_EmptyOrderRejected ==
    (op.name = "place_order" /\ op.beverages = <<>>) =>
        /\ ReturnedErr("InvalidOrder")
        /\ ~Called("process_payment")
        /\ ~Called("save")
        /\ ~Called("notify_order_placed")
        /\ repo = pre

C2_Witness ==
    /\ op.name = "place_order"
    /\ op.beverages = <<>>
    /\ ReturnedErr("InvalidOrder")
    /\ pre.orders # EmptyMap

(***************************************************************************)
(* C3: whenever place_order returns Ok(order), order.status is Paid and    *)
(* order.payment_id is Some of the identifier process_payment returned in  *)
(* that call.                                                              *)
(***************************************************************************)
C3_ReturnedOrderIsPaid ==
    (op.name = "place_order" /\ ret.ok) =>
        /\ ret.val[1].status = "Paid"
        /\ \E j \in 1..Len(calls) :
              /\ calls[j].fn = "process_payment"
              /\ calls[j].out.ok
              /\ ret.val[1].payment_id = Some(calls[j].out.val[1])

C3_Witness ==
    /\ op.name = "place_order"
    /\ ret.ok
    /\ ret.val[1].payment_id # None

(***************************************************************************)
(* C4: when process_payment succeeds and save then fails, place_order      *)
(* returns StorageFailed wrapping the store's error, notify_order_placed   *)
(* is not invoked, nothing is called after the failed save (no refund),    *)
(* and the payment stays captured while the store has no record of the     *)
(* order.                                                                  *)
(***************************************************************************)
C4_PaidButNotStored ==
    (op.name = "place_order" /\ Succeeded("process_payment") /\ Failed("save")) =>
        /\ ret = Err(StorageFailed(calls[2].out.err))
        /\ ~Called("notify_order_placed")
        /\ Len(calls) = 2
        /\ calls[1].out.val[1] \in charges
        /\ calls[2].arg.id \notin DOMAIN repo.orders

(***************************************************************************)
(* C5: a notifier error never fails an operation: place_order,             *)
(* mark_order_ready and cancel_order return Ok whenever their payment and  *)
(* storage steps succeeded, whatever the notifier returns, and nothing     *)
(* ever returns NotificationFailed.                                        *)
(***************************************************************************)
C5_NotifierNeverFailsOperation ==
    /\ ~ReturnedErr("NotificationFailed")
    /\ (op.name = "place_order" /\ Succeeded("process_payment") /\ Succeeded("save"))
          => ret.ok
    /\ (op.name \in {"mark_order_ready", "cancel_order"} /\ Succeeded("update"))
          => ret.ok
    /\ \A j \in 1..Len(calls) : calls[j].fn \in NotifierMethods => ret.ok

C5_Witness ==
    /\ op.name = "place_order"
    /\ Failed("notify_order_placed")
    /\ ret.ok

(***************************************************************************)
(* C6: for every id present in the store, after mark_order_ready(id)       *)
(* returns Ok the order stored under id has status Ready.                  *)
(***************************************************************************)
C6_ReadyAfterMarkOrderReady ==
    (OnStored("mark_order_ready") /\ ret.ok) => repo.orders[op.id].status = "Ready"

(***************************************************************************)
(* C7: mark_order_ready is idempotent on the stored order.  As claimed:    *)
(* on a stored Ready order it returns Ok, the order stays Ready, update is *)
(* invoked with the stored content; and a second mark_order_ready(id)      *)
(* leaves the stored orders as the first left them.                        *)
(***************************************************************************)
SecondMarkOrderReadyChangesNothing ==
    \A e \in EnvNoPayment(repo.kind) :
        mark_order_ready(State, op.id, e).s.repo.orders = repo.orders

C7_Original ==
    OnStored("mark_order_ready") =>
        /\ pre.orders[op.id].status = "Ready" =>
              /\ ret.ok
              /\ repo.orders[op.id].status = "Ready"
              /\ \E j \in 1..Len(calls) :
                    calls[j].fn = "update" /\ calls[j].arg = pre.orders[op.id]
        /\ SecondMarkOrderReadyChangesNothing

\* C7 as amended: Ok is returned unless the store's update fails, in which
\* case StorageFailed is; the rest as claimed.
C7_MarkOrderReadyIdempotent ==
    OnStored("mark_order_ready") =>
        /\ pre.orders[op.id].status = "Ready" =>
              /\ Succeeded("update") => ret.ok
              /\ Failed("update") => ReturnedErr("StorageFailed")
              /\ repo.orders[op.id].status = "Ready"
              /\ \E j \in 1..Len(calls) :
                    calls[j].fn = "update" /\ calls[j].arg = pre.orders[op.id]
        /\ SecondMarkOrderReadyChangesNothing

C7_Witness ==
    /\ OnStored("mark_order_ready")
    /\ pre.orders[op.id].status = "Ready"
    /\ ret.ok
    /\ repo.orders[op.id].status = "Ready"

(***************************************************************************)
(* C8: cancel_order on an order stored as Completed returns InvalidOrder;  *)
(* update and notify_order_cancelled are not invoked and the stored order  *)
(* stays Completed.                                                        *)
(***************************************************************************)
C8_CompletedNotCancelled ==
    (OnStored("cancel_order") /\ pre.orders[op.id].status = "Completed") =>
        /\ ReturnedErr("InvalidOrder")
        /\ ~Called("update")
        /\ ~Called("notify_order_cancelled")
        /\ repo = pre
        /\ repo.orders[op.id].status = "Completed"

C8_Witness ==
    /\ OnStored("cancel_order")
    /\ pre.orders[op.id].status = "Completed"
    /\ ReturnedErr("InvalidOrder")

(***************************************************************************)
(* C9: as claimed, cancel_order on a stored order in any status other than *)
(* Completed returns Ok and leaves the order stored under that id          *)
(* Cancelled, with id, customer, items, created_at, total_price and        *)
(* payment_id unchanged.                                                   *)
(***************************************************************************)
C9_Original ==
    (OnStored("cancel_order") /\ pre.orders[op.id].status # "Completed") =>
        /\ ret.ok
        /\ repo.orders[op.id] = [pre.orders[op.id] EXCEPT !.status = "Cancelled"]

\* C9 as amended: it returns Ok unless the store's update fails, in which
\* case it returns StorageFailed; whenever it returns Ok the stored order is
\* Cancelled and otherwise unchanged.
C9_CancelStoresCancelled ==
    (OnStored("cancel_order") /\ pre.orders[op.id].status # "Completed") =>
        /\ Called("update")
        /\ Succeeded("update") => ret.ok
        /\ Failed("update") => ReturnedErr("StorageFailed")
        /\ ret.ok => repo.orders[op.id] = [pre.orders[op.id] EXCEPT !.status = "Cancelled"]

C9_Witness ==
    /\ OnStored("cancel_order")
    /\ pre.orders[op.id].status = "Ready"
    /\ ret.ok
    /\ repo.orders[op.id].status = "Cancelled"

(***************************************************************************)
(* C10: mark_order_ready(id) and cancel_order(id) on an id with no record  *)
(* return OrderNotFound, invoke neither update nor any notifier method,    *)
(* and leave the store unchanged.                                          *)
(***************************************************************************)
C10_MissingOrderNotFound ==
    (OnMissing("mark_order_ready") \/ OnMissing("cancel_order")) =>
        /\ ret = Err(OrderNotFound)
        /\ ~Called("update")
        /\ \A j \in 1..Len(calls) : calls[j].fn \notin NotifierMethods
        /\ repo = pre

C10_Witness ==
    /\ OnMissing("cancel_order")
    /\ ret = Err(OrderNotFound)
    /\ pre.orders # EmptyMap

\* C11: get_order(id) returns the stored order when the repository holds one
\* under id, OrderNotFound when it holds none, and StorageFailed wrapping the
\* repository's error when find_by_id fails; find_by_id is the only call it
\* makes and the repository is left as it was.
C11_GetOrderOutcome ==
    op.name = "get_order" =>
        /\ repo = pre
        /\ Len(calls) = 1
        /\ calls[1].fn = "find_by_id"
        /\ ret = IF pre.find = "LoadFailed" THEN Err(<<"StorageFailed", "LoadFailed">>)
                 ELSE IF op.id \in DOMAIN pre.orders THEN Ok(pre.orders[op.id])
                 ELSE Err(<<"OrderNotFound">>)

\* get_order on a stored order while retrieval fails
C11_Witness ==
    /\ OnStored("get_order")
    /\ pre.find = "LoadFailed"
    /\ ret = Err(<<"StorageFailed", "LoadFailed">>)

\* C12: when the repository's update fails during mark_order_ready or
\* cancel_order, with NotFound or with any other error, the operation returns
\* StorageFailed wrapping that error, never OrderNotFound, and no notifier
\* method is called.
C12_UpdateErrorIsStorageFailed ==
    (op.name \in {"mark_order_ready", "cancel_order"} /\ Called("update")) =>
        LET u == calls[Len(calls)]
        IN  \/ Succeeded("update")
            \/ /\ u.fn = "update"
               /\ u.out.err = <<pre.write>>
               /\ ret = Err(<<"StorageFailed", pre.write>>)
               /\ \A j \in 1..Len(calls) : calls[j].fn \notin NotifierMethods

\* the record is gone when cancel_order's update reaches the repository
C12_Witness ==
    /\ OnStored("cancel_order")
    /\ Failed("update")
    /\ ret = Err(<<"StorageFailed", "NotFound">>)

\* positions in the log of the updates of id that the repository accepted
UpdatesOf(id) ==
    {j \in 1..Len(calls) : calls[j].fn = "update" /\ calls[j].arg.id = id /\ calls[j].out.ok}

Last(S) == CHOOSE j \in S : \A i \in S : i <= j

\* c's cancel_order returned Ok, both callers are done, and the stored status
\* is not Cancelled
LostUpdate(c) ==
    /\ \A d \in Callers : op[d].pc = "done"
    /\ op[c].name = "cancel_order"
    /\ ret[c] = Some(Ok(Unit))
    /\ repo.orders[op[c].id].status # "Cancelled"

Requires ==
    [mark_as_preparing |-> "Paid", mark_as_ready |-> "Preparing", mark_as_completed |-> "Ready"]

Sets ==
    [mark_as_preparing |-> "Preparing", mark_as_ready |-> "Ready", mark_as_completed |-> "Completed"]

TransitionMethods ==
    {"mark_as_paid", "mark_as_preparing", "mark_as_ready", "mark_as_completed", "cancel"}

\* C14: mark_as_preparing changes the status, to Preparing, only when it is
\* exactly Paid, mark_as_ready, to Ready, only when exactly Preparing,
\* mark_as_completed, to Completed, only when exactly Ready; from every other
\* status each leaves the whole order as it was.
C14_GuardedTransitions ==
    op.name \in DOMAIN Requires =>
        IF pre.status = Requires[op.name]
        THEN ret = [pre EXCEPT !.status = Sets[op.name]]
        ELSE ret = pre

\* mark_as_preparing on an order nobody paid for changes nothing
C14_Witness ==
    /\ op.name = "mark_as_preparing"
    /\ pre.status = "Pending"
    /\ ret = pre

\* C15: cancel sets the status to Cancelled from Pending, Paid, Preparing,
\* Ready and Cancelled, and changes nothing on a Completed order.
C15_CancelUnlessCompleted ==
    op.name = "cancel" =>
        /\ pre.status \in {"Pending", "Paid", "Preparing", "Ready", "Cancelled"}
              => ret.status = "Cancelled"
        /\ pre.status = "Completed" => ret = pre

\* cancel on a Completed order
C15_Witness ==
    /\ op.name = "cancel"
    /\ pre.status = "Completed"
    /\ ret.status = "Completed"

\* C16: mark_as_paid sets the status to Paid and payment_id to the identifier
\* it is given from every status, replacing any identifier already stored.
C16_MarkAsPaidUnconditional ==
    op.name = "mark_as_paid" =>
        /\ ret.status = "Paid"
        /\ ret.payment_id = Some(op.payment_id)

\* a Completed order paid with one identifier is paid again with another
C16_Witness ==
    /\ op.name = "mark_as_paid"
    /\ pre.status = "Completed"
    /\ pre.payment_id # None
    /\ pre.payment_id # Some(op.payment_id)
    /\ ret.status = "Paid"

\* C17: over any sequence of transition calls on a new order, the status
\* becomes Preparing only directly from Paid, Ready only directly from
\* Preparing and Completed only directly from Ready, so a Completed order was
\* Paid, then Preparing, then Ready before.
C17_NoStageSkipped ==
    /\ \A i \in 2..Len(calls) :
          /\ (calls[i] = "Preparing" /\ calls[i-1] # "Preparing") => calls[i-1] = "Paid"
          /\ (calls[i] = "Ready" /\ calls[i-1] # "Ready") => calls[i-1] = "Preparing"
          /\ (calls[i] = "Completed" /\ calls[i-1] # "Completed") => calls[i-1] = "Ready"
    /\ (op # Idle /\ ret.status = "Completed") =>
          \E i, j, k \in 1..Len(calls) :
              /\ i < j /\ j < k
              /\ calls[i] = "Paid" /\ calls[j] = "Preparing" /\ calls[k] = "Ready"

\* an order that has just been completed
C17_Witness ==
    /\ op.name = "mark_as_completed"
    /\ pre.status = "Ready"
    /\ ret.status = "Completed"

\* price * quantity summed over the first n items
RECURSIVE LineTotals(_, _)
LineTotals(items, n) ==
    IF n = 0 THEN 0 ELSE LineTotals(items, n - 1) + items[n].price * items[n].quantity

\* C19: for every item list, Order::new yields an order in status Pending,
\* without payment_id, whose total_price is the sum over its items of
\* price * quantity (amounts in cents).
C19_NewOrder ==
    op.name = "new" =>
        /\ ret.status = "Pending"
        /\ ret.payment_id = None
        /\ ret.items = op.items
        /\ ret.total_price = LineTotals(op.items, Len(op.items))

\* two coffees and a tea: 2 * 3.50 + 2.50
C19_Witness ==
    /\ op.name = "new"
    /\ Len(op.items) = 2
    /\ op.items[1].quantity = 2
    /\ ret.total_price = 950

\* C20: mark_as_paid, mark_as_preparing, mark_as_ready, mark_as_completed and
\* cancel leave id, customer, items, created_at and total_price as they were,
\* and only mark_as_paid changes payment_id.
C20_TransitionsKeepOrderData ==
    op.name \in TransitionMethods =>
        /\ ret.id = pre.id
        /\ ret.customer = pre.customer
        /\ ret.items = pre.items
        /\ ret.created_at = pre.created_at
        /\ ret.total_price = pre.total_price
        /\ op.name # "mark_as_paid" => ret.payment_id = pre.payment_id

\* a paid, priced order changes status and keeps its data
C20_Witness ==
    /\ op.name = "mark_as_completed"
    /\ ret.status # pre.status
    /\ pre.total_price > 0
    /\ pre.payment_id # None
    /\ ret.total_price = pre.total_price
    /\ ret.payment_id = pre.payment_id

(***************************************************************************)
(* The service again (Spec)                                                *)
(***************************************************************************)
\* C18: an order carries no payment_id until process_payment has succeeded
\* for it, and once place_order has stored it no operation of the service
\* changes the payment_id stored for it: the order place_order saves carries
\* the identifier process_payment just returned, every stored order the
\* service placed carries an identifier the processor issued, and each
\* operation leaves every record that was stored before it with the
\* payment_id it had.
C18_PaymentIdSetOnce ==
    /\ \A j \in 1..Len(calls) :
          calls[j].fn = "save" =>
              /\ calls[1].fn = "process_payment" /\ calls[1].out.ok
              /\ calls[j].arg.payment_id = Some(calls[1].out.val[1])
    /\ \A id \in DOMAIN repo.orders :
          id > 0 => \E p \in charges : repo.orders[id].payment_id = Some(p)
    /\ \A id \in DOMAIN pre.orders :
          /\ id \in DOMAIN repo.orders
          /\ repo.orders[id].payment_id = pre.orders[id].payment_id

\* an order the service placed is cancelled and keeps its payment_id
C18_Witness ==
    /\ OnStored("cancel_order")
    /\ op.id > 0
    /\ ret.ok
    /\ pre.orders[op.id].payment_id # None
    /\ repo.orders[op.id].status # pre.orders[op.id].status
    /\ repo.orders[op.id].payment_id = pre.orders[op.id].payment_id

(***************************************************************************)
(* The adapters (SpecRepo, SpecRestart)                                    *)
(***************************************************************************)
Adapters == {"memory", "json"}

\* C21: save of an order whose id is already in the repository fails with
\* AlreadyExists and leaves the repository as it was: find_by_id returns the
\* order the first save stored.
C21_DuplicateSaveRefused ==
    op.name = "save" =>
        \A a \in Adapters :
            op.id \in DOMAIN pre[a].orders =>
                /\ ret[a] = Err(<<"AlreadyExists">>)
                /\ repo[a] = pre[a]
                /\ get(repo[a].orders, op.id) = Some(pre[a].orders[op.id])

\* a save of other contents under a stored id
C21_Witness ==
    /\ op.name = "save"
    /\ op.id \in DOMAIN pre.memory.orders
    /\ op.order # pre.memory.orders[op.id]
    /\ ret.memory = Err(<<"AlreadyExists">>)

\* C22: update on an id without record fails with NotFound and creates no
\* record (the repository is as it was); update on a stored id replaces the
\* record, so that find_by_id returns the updated order.
C22_UpdateNeedsRecord ==
    op.name = "update" =>
        \A a \in Adapters :
            IF op.id \in DOMAIN pre[a].orders
            THEN /\ get(repo[a].orders, op.id) = Some(op.order)
                 /\ DOMAIN repo[a].orders = DOMAIN pre[a].orders
            ELSE /\ ret[a] = Err(<<"NotFound">>)
                 /\ repo[a] = pre[a]

\* an update on an id that has no record, while another has
C22_Witness ==
    /\ op.name = "update"
    /\ op.id \notin DOMAIN pre.memory.orders
    /\ pre.memory.orders # EmptyMap
    /\ ret.memory = Err(<<"NotFound">>)
    /\ ret.json = Err(<<"NotFound">>)

\* positions in the log of the delete(id) calls that returned true on a
DeletedAt(a, id) ==
    {i \in 1..Len(calls) :
        calls[i].op.name = "delete" /\ calls[i].op.id = id /\ calls[i][a] = Ok(TRUE)}

AllSucceeded == \A i \in 1..Len(calls) : calls[i].json.ok

LogHas(name) == \E i \in 1..Len(calls) : calls[i].op.name = name

C24_ListsAreTheStoredOrders ==
    /\ op.name = "list_customer_orders" =>
          /\ ret = Ok({pre.orders[i] : i \in {k \in DOMAIN pre.orders :
                                                pre.orders[k].customer = op.email}})
          /\ ret.val = calls[1].out.val
          /\ calls[1].fn = "find_by_customer_email"
    /\ op.name = "list_all_orders" =>
          /\ ret = Ok({pre.orders[i] : i \in DOMAIN pre.orders})
          /\ ret.val = calls[1].out.val
          /\ calls[1].fn = "list_all"
    /\ op.name \in {"list_customer_orders", "list_all_orders"} =>
          /\ Len(calls) = 1
          /\ repo = pre

\* two customers have an order each and one of them asks for theirs
C24_Witness ==
    /\ op.name = "list_customer_orders"
    /\ Cardinality(DOMAIN pre.orders) = 2
    /\ ret.ok
    /\ Cardinality(ret.val[1]) = 1

\* C27: within one place_order, mark_order_ready or cancel_order call each
\* collaborator method is invoked at most once, at most one notifier method
\* is invoked, and a collaborator call that failed is the last one of the
\* call: nothing is retried.
C27_NoRetries ==
    op.name \in {"place_order", "mark_order_ready", "cancel_order"} =>
        /\ \A i, j \in 1..Len(calls) : i < j => calls[i].fn # calls[j].fn
        /\ Cardinality({i \in 1..Len(calls) : calls[i].fn \in NotifierMethods}) <= 1
        /\ \A i \in 1..Len(calls) : ~calls[i].out.ok => i = Len(calls)
        /\ (\E i \in 1..Len(calls) : ~calls[i].out.ok /\ calls[i].fn \notin NotifierMethods)
              => ~ret.ok

\* the payment fails: place_order returns after that one call
C27_Witness ==
    /\ op.name = "place_order"
    /\ Failed("process_payment")
    /\ Len(calls) = 1
    /\ ReturnedErr("PaymentFailed")

\* C28: no operation of the service invokes the repository's delete: every
\* record stored before an operation is stored after it, so the number of
\* stored orders never decreases, the order place_order returned Ok for is
\* stored, and get_order on a stored id returns Ok.
C28_NeverDeletes ==
    /\ \A i \in 1..Len(calls) : calls[i].fn # "delete"
    /\ DOMAIN pre.orders \subseteq DOMAIN repo.orders
    /\ Cardinality(DOMAIN repo.orders) >= Cardinality(DOMAIN pre.orders)
    /\ (op.name = "place_order" /\ ret.ok) => ret.val[1].id \in DOMAIN repo.orders
    /\ OnStored("get_order") => ret.ok /\ ret.val[1].id = op.id

\* get_order finds an order the service placed and later cancelled
C28_Witness ==
    /\ OnStored("get_order")
    /\ op.id > 0
    /\ ret.ok
    /\ ret.val[1].status = "Cancelled"

(***************************************************************************)
(* The payment processors (SpecPayment)                                    *)
(***************************************************************************)
\* C29: process_payment called twice in a row with the same amount on
\* CashPayment or on CreditCardPayment makes no second charge: the second
\* call yields no new payment identifier, distinct from the first one's.
C29_SecondCallSamePayment ==
    ( /\ op.name = "process_payment"
      /\ pre.op.name = "process_payment"
      /\ pre.op.processor = op.processor
      /\ pre.op.amount = op.amount
      /\ pre.ret.ok )
    => ret = pre.ret

\* C30: CreditCardPayment::process_payment returns ProcessingFailed exactly
\* when the amount is negative or above 1000.00 and otherwise Ok with an
\* identifier that starts with "CC-"; no order placed through it whose total
\* is above 1000.00 is stored.
C30_CardLimit ==
    /\ (op.name = "process_payment" /\ op.processor = "CreditCard") =>
          IF op.amount < 0 \/ op.amount > 100000
          THEN ret = Err(<<"ProcessingFailed">>)
          ELSE ret.ok /\ ret.val[1][1] = "CC-"
    /\ \A id \in DOMAIN repo.orders : repo.orders[id].total_price <= 100000
    /\ (op.name = "place_order" /\ calls[1].arg > 100000) =>
          /\ ret = Err(<<"PaymentFailed", "ProcessingFailed">>)
          /\ Len(calls) = 1

\* five big coffees on the card: refused, nothing stored
C30_Witness ==
    /\ op.name = "place_order"
    /\ Len(op.beverages) = 5
    /\ ret = Err(<<"PaymentFailed", "ProcessingFailed">>)
    /\ repo.orders = EmptyMap

(***************************************************************************)
(* The service, continued (Spec, SpecFresh, SpecMain)                      *)
(***************************************************************************)
PlaceOrderSteps == <<"process_payment", "save", "notify_order_placed">>

\* C31: place_order validates, then calls process_payment, then (the order
\* marked as paid) save, then notify_order_placed, each only after the one
\* before returned Ok: an empty item list is refused before any call, and the
\* order passed to save and to notify_order_placed has status Paid and the
\* payment_id process_payment returned.
C31_PlaceOrderStepOrder ==
    op.name = "place_order" =>
        /\ Len(calls) <= Len(PlaceOrderSteps)
        /\ op.beverages = <<>> => calls = <<>>
        /\ \A i \in 1..Len(calls) :
              /\ calls[i].fn = PlaceOrderSteps[i]
              /\ i > 1 => calls[i - 1].out.ok
              /\ i > 1 => /\ calls[i].arg.status = "Paid"
                          /\ calls[i].arg.payment_id = Some(calls[1].out.val[1])

\* all three steps ran
C31_Witness ==
    /\ op.name = "place_order"
    /\ Len(calls) = 3
    /\ calls[3].fn = "notify_order_placed"
    /\ calls[3].arg.status = "Paid"
    /\ ret = Ok(calls[3].arg)

\* C32: with operations run one at a time on a repository that started
\* empty, every stored order has status Paid or Cancelled and a payment_id.
C32_StoredPaidOrCancelled ==
    \A id \in DOMAIN repo.orders :
        /\ repo.orders[id].status \in {"Paid", "Cancelled"}
        /\ repo.orders[id].payment_id # None

\* mark_order_ready returned Ok on an order the service placed
C32_Witness ==
    /\ OnStored("mark_order_ready")
    /\ ret.ok
    /\ repo.orders[op.id].status = "Paid"

\* C33: notify_order_ready is invoked only with an order whose status is
\* Ready, and notify_order_cancelled only with an order whose status is
\* Cancelled.
C33_NotifiedStatusMatches ==
    \A j \in 1..Len(calls) :
        /\ calls[j].fn = "notify_order_ready" => calls[j].arg.status = "Ready"
        /\ calls[j].fn = "notify_order_cancelled" => calls[j].arg.status = "Cancelled"

\* C34: a save, update or delete of JsonOrderRepository that returns
\* SaveFailed because the file write failed leaves the orders the repository
\* answers find_by_id and list_all from as they were before the call.
C34_FailedWriteLeavesContents ==
    /\ op.name \in {"save", "update", "delete"}
    /\ ret.json = Err(<<"SaveFailed">>)
    => /\ repo.json.orders = pre.json.orders
       /\ \A id \in RepoIds :
             Json_find_by_id(repo.json, id) = Json_find_by_id(pre.json, id)
       /\ Json_list_all(repo.json) = Json_list_all(pre.json)

\* C35: after place_order returned Ok(order), get_order(order.id) returns an
\* order with the same id, customer, items, total_price, status and
\* payment_id, and the store holds exactly one more order than before.
C35_PlacedOrderIsStored ==
    op.name = "place_order" /\ ret.ok =>
        LET order == ret.val[1]
            got == get_order(repo, order.id)
        IN  /\ got.ok
            /\ got.val[1].id = order.id
            /\ got.val[1].customer = order.customer
            /\ got.val[1].items = order.items
            /\ got.val[1].total_price = order.total_price
            /\ got.val[1].status = order.status
            /\ got.val[1].payment_id = order.payment_id
            /\ Cardinality(DOMAIN repo.orders) = Cardinality(DOMAIN pre.orders) + 1

\* an order was placed in a store that already held one
C35_Witness ==
    /\ op.name = "place_order" /\ ret.ok
    /\ DOMAIN pre.orders # {}
    /\ get_order(repo, ret.val[1].id) = Ok(ret.val[1])
    /\ Cardinality(DOMAIN repo.orders) = 2

\* C36: with MemoryOrderRepository and CashPayment, place_order with a
\* non-empty item list always returns Ok: the order gets an id no stored
\* order has, and save never fails with AlreadyExists.
C36_CashInMemoryAlwaysPlaced ==
    op.name = "place_order" /\ op.beverages # <<>> =>
        /\ ret.ok
        /\ ret.val[1].id \notin DOMAIN pre.orders
        /\ \A j \in 1..Len(calls) :
              calls[j].fn = "save" => calls[j].out # Err(<<"AlreadyExists">>)

\* a second order was placed while the first one is stored
C36_Witness ==
    /\ op.name = "place_order" /\ ret.ok
    /\ DOMAIN pre.orders # {}
    /\ Cardinality(DOMAIN repo.orders) = Cardinality(DOMAIN pre.orders) + 1
    /\ Succeeded("save")

\* C37: at the service, Cancelled is absorbing: an order cancel_order
\* returned Ok for is stored as Cancelled, and an order stored as Cancelled
\* before a mark_order_ready, cancel_order or place_order is stored as
\* Cancelled after it and get_order returns it with that status.
C37_CancelledIsAbsorbing ==
    /\ OnStored("cancel_order") /\ ret.ok =>
          /\ op.id \in DOMAIN repo.orders
          /\ repo.orders[op.id].status = "Cancelled"
    /\ \A id \in DOMAIN pre.orders :
          pre.orders[id].status = "Cancelled" =>
              /\ id \in DOMAIN repo.orders
              /\ repo.orders[id].status = "Cancelled"
              /\ get_order(repo, id).ok
              /\ get_order(repo, id).val[1].status = "Cancelled"
    /\ op.name = "get_order" /\ ret.ok => ret.val[1] = repo.orders[op.id]

\* mark_order_ready returned Ok on a cancelled order
C37_Witness ==
    /\ OnStored("mark_order_ready") /\ ret.ok
    /\ pre.orders[op.id].status = "Cancelled"
    /\ repo.orders[op.id].status = "Cancelled"

\* C38: mark_order_ready(id) and cancel_order(id) leave every stored order
\* with another id as it was, and place_order leaves every order stored
\* before it as it was.
C38_OtherOrdersUntouched ==
    /\ op.name \in {"mark_order_ready", "cancel_order"} =>
          \A id \in DOMAIN pre.orders \ {op.id} :
              id \in DOMAIN repo.orders /\ repo.orders[id] = pre.orders[id]
    /\ op.name = "place_order" =>
          \A id \in DOMAIN pre.orders :
              id \in DOMAIN repo.orders /\ repo.orders[id] = pre.orders[id]

\* one of two stored orders was cancelled
C38_Witness ==
    /\ OnStored("cancel_order") /\ ret.ok
    /\ Cardinality(DOMAIN pre.orders) = 2
    /\ repo.orders[op.id] # pre.orders[op.id]
    /\ \E id \in DOMAIN pre.orders \ {op.id} : repo.orders[id].status # "Cancelled"

\* the prices of the first n beverages, summed
RECURSIVE BeveragePrices(_, _)
BeveragePrices(beverages, n) ==
    IF n = 0 THEN 0 ELSE BeveragePrices(beverages, n - 1) + beverages[n].price

\* the order's line items are the beverages, one to one and in order
ItemsOf(order, beverages) ==
    /\ Len(order.items) = Len(beverages)
    /\ \A i \in 1..Len(beverages) :
          /\ order.items[i].beverage_name = beverages[i].name
          /\ order.items[i].beverage_description = beverages[i].description
          /\ order.items[i].price = beverages[i].price
          /\ order.items[i].quantity = 1
    /\ order.total_price = BeveragePrices(beverages, Len(beverages))

\* C39: place_order makes one line item per input beverage, in the same
\* order, of quantity 1 and the beverage's price, and passes to
\* process_payment the order's total_price, the sum of the beverages' prices.
C39_ItemsAndAmount ==
    op.name = "place_order" /\ op.beverages # <<>> =>
        /\ calls # <<>>
        /\ calls[1].fn = "process_payment"
        /\ calls[1].arg = BeveragePrices(op.beverages, Len(op.beverages))
        /\ \A j \in 2..Len(calls) :
              ItemsOf(calls[j].arg, op.beverages) /\ calls[j].arg.total_price = calls[1].arg
        /\ ret.ok => ItemsOf(ret.val[1], op.beverages)

\* a coffee and a tea were ordered, charged 6.00 and stored
C39_Witness ==
    /\ op.name = "place_order" /\ op.beverages = <<Coffee, Tea>> /\ ret.ok
    /\ calls[1].arg = 600
    /\ ret.val[1].items[2].beverage_name = "Green Tea"
    /\ repo.orders[ret.val[1].id].total_price = 600
====
